---- MODULE Spec2Model ----
(***************************************************************************)
(* Verification model of the food-finder dashboard UI (src/ui/web).        *)
(*                                                                         *)
(*   - the leads list page   (app/leads/page.tsx, lib/api.ts getLeads)     *)
(*   - the draft-email modal (components/draft-email-modal.tsx)            *)
(*   - the lead detail view  (app/leads/[id]/page.tsx, lib/utils.ts)       *)
(*   - the lead store and the query and statistics services the dashboard  *)
(*     reads, as the specification describes them                          *)
(*                                                                         *)
(* JavaScript values are represented as follows.                           *)
(*   optional value (T | undefined | null) : a set, {} or {v}              *)
(*   number                                : [nan : BOOLEAN, n : Int]      *)
(*   string, boolean                       : TLA+ string, BOOLEAN          *)
(***************************************************************************)
EXTENDS Integers, Sequences, FiniteSets, TLC

VARIABLES
    searchParams,   \* leads list: the URL query, key -> optional string
    searchInput,    \* leads list: text of the search box (useState)
    leadsQuery,     \* leads list: useQuery(['leads', params]) result
    request,        \* leads list: query of the last list request issued
    listOp,         \* leads list: the handler that ran last
    backUrl,        \* leads list: the browser history entry behind the current one
    isOpen,         \* draft modal: the isOpen prop
    mutation,       \* draft modal: useMutation result (status, data)
    current,        \* draft modal: the request the mutation result follows, 0 if none
    inflight,       \* draft modal: generateDraftEmail requests sent and not answered
    issued,         \* draft modal: number of generateDraftEmail calls so far
    subject,        \* draft modal: useState('')
    body,           \* draft modal: useState('')
    enrichedInfo,   \* draft modal: useState<EnrichedCompanyInfo | null>(null)
    modalOp,        \* draft modal: the step taken last
    draftResponse,  \* draft modal: the answer that settled a request last
    leadQuery,      \* lead detail: useQuery(['lead', id]) result
    detailView,     \* lead detail: what the last render produced
    store,          \* lead store: the ids of the leads it holds
    served          \* services: the call answered last, with its answer

listVars == <<searchParams, searchInput, leadsQuery, request, listOp, backUrl>>

modalVars == <<isOpen, mutation, current, inflight, issued, subject, body,
               enrichedInfo, modalOp, draftResponse>>

detailVars == <<leadQuery, detailView>>

serviceVars == <<store, served>>

vars == <<searchParams, searchInput, leadsQuery, request, listOp, backUrl,
          isOpen, mutation, current, inflight, issued, subject, body,
          enrichedInfo, modalOp, draftResponse, leadQuery, detailView, store, served>>

(***************************************************************************)
(* Bounds of the model.                                                    *)
(***************************************************************************)
MaxPage == 3
\* At most MaxRequests draft requests are issued in a run.
MaxRequests == 4
\* At most MaxActive query keys besides page are present in the URL at once.
MaxActive == 2
\* At most MaxStore leads are in the lead store.
MaxStore == 3

(***************************************************************************)
(* JavaScript value helpers.                                               *)
(***************************************************************************)
None == {}
Some(x) == {x}
Val(o) == CHOOSE x \in o : TRUE

Num(n) == [nan |-> FALSE, n |-> n]
NaN == [nan |-> TRUE, n |-> 0]

\* Values a handler passes in a Partial<LeadsQueryParams> object.
JsUndefined == [t |-> "undefined"]
JsString(s) == [t |-> "string", s |-> s]
JsBoolean(b) == [t |-> "boolean", b |-> b]
JsNumber(n) == [t |-> "number", num |-> Num(n)]

\* Number.prototype.toString / String(number)
NumToString(x) == IF x.nan THEN "NaN" ELSE ToString(x.n)

\* String(value) as used by updateParams (page.tsx:65)
JsToString(v) ==
    CASE v.t = "string" -> v.s
      [] v.t = "boolean" -> (IF v.b THEN "true" ELSE "false")
      [] v.t = "number" -> NumToString(v.num)
      [] OTHER -> "undefined"

\* part occurs in text, as a run of consecutive characters.
Contains(text, part) ==
    \/ part = ""
    \/ \E i \in 1..(Len(text) - Len(part) + 1) : SubSeq(text, i, i + Len(part) - 1) = part

\* parseInt(s) on the texts the model feeds it: a canonical decimal integer
\* parses to that integer, any other text (no leading digits) to NaN.
IntTexts == ((0 - 1) .. (MaxPage + 2)) \cup {20, 50, 500}
ParseInt(s) ==
    IF \E n \in IntTexts : ToString(n) = s
    THEN Num(CHOOSE n \in IntTexts : ToString(n) = s)
    ELSE NaN


(***************************************************************************)
(* Leads list page: app/leads/page.tsx and lib/api.ts                      *)
(***************************************************************************)
PageSize == 50

\* The query keys a URL of the page may carry: those the page reads, and
\* page_size, which it does not read but a typed URL can contain.
UrlKeys == {"page", "page_size", "sort_by", "sort_order", "state", "source",
            "is_qualified", "is_us", "is_enriched", "search"}

ReqKeys == {"page", "page_size", "sort_by", "sort_order", "state", "source",
            "min_score", "max_score", "is_qualified", "has_email", "is_us",
            "is_enriched", "company_type", "has_linkedin", "search"}

\* The URL /leads with no query.
EmptyUrl == [k \in UrlKeys |-> None]

\* searchParams.get(key) || dflt : null and '' both fall back to dflt.
GetOr(sp, key, dflt) ==
    IF sp[key] = None \/ sp[key] = Some("") THEN dflt ELSE Val(sp[key])

\* searchParams.get(key) || undefined
GetOrUndefined(sp, key) ==
    IF sp[key] = None \/ sp[key] = Some("") THEN None ELSE sp[key]

\* get(key) === 'true' ? true : get(key) === 'false' ? false : undefined
TriBool(sp, key) ==
    IF sp[key] = Some("true") THEN Some(TRUE)
    ELSE IF sp[key] = Some("false") THEN Some(FALSE)
    ELSE None

\* Variant of IsUsParam read as a plain boolean: anything but 'false' is true.
IsUsParam_PlainBoolean(sp) ==
    IF sp["is_us"] = Some("false") THEN Some(FALSE) ELSE Some(TRUE)

\* get('is_us') === 'false' ? false : get('is_us') === 'all' ? undefined : true
IsUsParam(sp) ==
    IF sp["is_us"] = Some("false") THEN Some(FALSE)
    ELSE IF sp["is_us"] = Some("all") THEN None
    ELSE Some(TRUE)

\* Variant of Params that takes page_size from the URL.
Params_PageSizeFromUrl(sp) ==
    [page         |-> Some(ParseInt(GetOr(sp, "page", "1"))),
     page_size    |-> Some(ParseInt(GetOr(sp, "page_size", "50"))),
     sort_by      |-> Some(GetOr(sp, "sort_by", "score")),
     sort_order   |-> Some(GetOr(sp, "sort_order", "desc")),
     state        |-> GetOrUndefined(sp, "state"),
     source       |-> GetOrUndefined(sp, "source"),
     min_score    |-> None,
     max_score    |-> None,
     is_qualified |-> TriBool(sp, "is_qualified"),
     has_email    |-> None,
     is_us        |-> IsUsParam(sp),
     is_enriched  |-> TriBool(sp, "is_enriched"),
     company_type |-> None,
     has_linkedin |-> None,
     search       |-> GetOrUndefined(sp, "search")]

\* const params: LeadsQueryParams = useMemo(...)
Params(sp) ==
    [page         |-> Some(ParseInt(GetOr(sp, "page", "1"))),
     page_size    |-> Some(Num(PageSize)),
     sort_by      |-> Some(GetOr(sp, "sort_by", "score")),
     sort_order   |-> Some(GetOr(sp, "sort_order", "desc")),
     state        |-> GetOrUndefined(sp, "state"),
     source       |-> GetOrUndefined(sp, "source"),
     min_score    |-> None,
     max_score    |-> None,
     is_qualified |-> TriBool(sp, "is_qualified"),
     has_email    |-> None,
     is_us        |-> IsUsParam(sp),
     is_enriched  |-> TriBool(sp, "is_enriched"),
     company_type |-> None,
     has_linkedin |-> None,
     search       |-> GetOrUndefined(sp, "search")]

\* JavaScript truthiness of an optional number / optional string.
TruthyNum(o) == o # None /\ ~Val(o).nan /\ Val(o).n # 0
TruthyStr(o) == o # None /\ o # Some("")

BoolToString(b) == IF b THEN "true" ELSE "false"

\* Variant of getLeads that tests the boolean filters for truthiness, so
\* that a filter set to false is not sent.
getLeads_DropsFalse(p) ==
    [k \in ReqKeys |->
        CASE k = "page" ->
               IF TruthyNum(p.page) THEN Some(NumToString(Val(p.page))) ELSE None
          [] k = "page_size" ->
               IF TruthyNum(p.page_size) THEN Some(NumToString(Val(p.page_size))) ELSE None
          [] k \in {"sort_by", "sort_order", "state", "source", "company_type", "search"} ->
               IF TruthyStr(p[k]) THEN p[k] ELSE None
          [] k \in {"min_score", "max_score"} ->
               IF p[k] # None THEN Some(NumToString(Val(p[k]))) ELSE None
          [] OTHER ->
               IF p[k] = Some(TRUE) THEN Some("true") ELSE None]

\* Variant of getLeads that tests the score bounds for truthiness, so that
\* a bound of 0 is not sent.
getLeads_DropsZero(p) ==
    [k \in ReqKeys |->
        CASE k = "page" ->
               IF TruthyNum(p.page) THEN Some(NumToString(Val(p.page))) ELSE None
          [] k = "page_size" ->
               IF TruthyNum(p.page_size) THEN Some(NumToString(Val(p.page_size))) ELSE None
          [] k \in {"sort_by", "sort_order", "state", "source", "company_type", "search"} ->
               IF TruthyStr(p[k]) THEN p[k] ELSE None
          [] k \in {"min_score", "max_score"} ->
               IF TruthyNum(p[k]) THEN Some(NumToString(Val(p[k]))) ELSE None
          [] OTHER ->
               IF p[k] # None THEN Some(BoolToString(Val(p[k]))) ELSE None]

\* getLeads: the query of the GET /leads/ request, key -> optional string.
getLeads(p) ==
    [k \in ReqKeys |->
        CASE k = "page" ->
               IF TruthyNum(p.page) THEN Some(NumToString(Val(p.page))) ELSE None
          [] k = "page_size" ->
               IF TruthyNum(p.page_size) THEN Some(NumToString(Val(p.page_size))) ELSE None
          [] k \in {"sort_by", "sort_order", "state", "source", "company_type", "search"} ->
               IF TruthyStr(p[k]) THEN p[k] ELSE None
          [] k \in {"min_score", "max_score"} ->
               IF p[k] # None THEN Some(NumToString(Val(p[k]))) ELSE None
          [] OTHER ->
               IF p[k] # None THEN Some(BoolToString(Val(p[k]))) ELSE None]

\* Variant of updateParams that leaves the page parameter alone.
updateParams_KeepsPage(sp, newParams) ==
    [k \in UrlKeys |->
        IF k \in DOMAIN newParams
        THEN IF \/ newParams[k].t = "undefined"
                \/ (newParams[k].t = "string" /\ newParams[k].s = "")
             THEN None
             ELSE Some(JsToString(newParams[k]))
        ELSE sp[k]]

\* Variant of updateParams that builds the URL from the named keys alone.
updateParams_Rebuilds(sp, newParams) ==
    [k \in UrlKeys |->
        IF k \in DOMAIN newParams
        THEN IF \/ newParams[k].t = "undefined"
                \/ (newParams[k].t = "string" /\ newParams[k].s = "")
             THEN None
             ELSE Some(JsToString(newParams[k]))
        ELSE IF k = "page" THEN Some("1") ELSE None]

\* updateParams: the URL pushed for the partial object newParams (a function
\* from the keys it names to JavaScript values).
updateParams(sp, newParams) ==
    [k \in UrlKeys |->
        IF k \in DOMAIN newParams
        THEN IF \/ newParams[k].t = "undefined"
                \/ (newParams[k].t = "string" /\ newParams[k].s = "")
             THEN None
             ELSE Some(JsToString(newParams[k]))
        ELSE IF k = "page" THEN Some("1") ELSE sp[k]]

\* Variant of hasActiveFilters that counts any defined is_us as active.
hasActiveFilters_CountsUsOnly(p) ==
    \/ TruthyStr(p.state)
    \/ TruthyStr(p.source)
    \/ p.is_qualified # None
    \/ p.is_us # None
    \/ p.is_enriched # None
    \/ TruthyStr(p.search)

\* hasActiveFilters (is_us = true is the default and does not count)
hasActiveFilters(p) ==
    \/ TruthyStr(p.state)
    \/ TruthyStr(p.source)
    \/ p.is_qualified # None
    \/ p.is_us # Some(TRUE)
    \/ p.is_enriched # None
    \/ TruthyStr(p.search)


(***************************************************************************)
(* The list endpoint as the specification describes it (section 4.1): the  *)
(* server is not part of the dashboard sources.                            *)
(***************************************************************************)
Totals == {0, 30, MaxPage * PageSize - 30}

CeilDiv(a, b) == (a + b - 1) \div b

Max(a, b) == IF a >= b THEN a ELSE b
Min(a, b) == IF a <= b THEN a ELSE b

\* The page a request asks for: absent means 1, a page below 1 is clamped.
RequestedPage(req) ==
    IF req["page"] = None THEN 1 ELSE Max(1, ParseInt(Val(req["page"])).n)

\* page_size - Items per page (default: 50, max: 100)      ui/README.md:104
DefaultPageSize == 50
MaxPageSize == 100

\* The page size of a request: absent means the default, a value above the
\* maximum is clamped to it.
RequestedPageSize(req) ==
    IF req["page_size"] = None
    THEN DefaultPageSize
    ELSE Min(MaxPageSize, Max(1, ParseInt(Val(req["page_size"])).n))

\* Variant of ListResponse whose page count rounds down.
ListResponse_RoundsDown(req, total) ==
    [total       |-> total,
     page        |-> RequestedPage(req),
     page_size   |-> RequestedPageSize(req),
     total_pages |-> total \div RequestedPageSize(req),
     nleads      |-> Max(0, Min(RequestedPageSize(req),
                                total - (RequestedPage(req) - 1) * RequestedPageSize(req)))]

\* LeadsResponse for a request over `total` matching rows.
ListResponse(req, total) ==
    [total       |-> total,
     page        |-> RequestedPage(req),
     page_size   |-> RequestedPageSize(req),
     total_pages |-> CeilDiv(total, RequestedPageSize(req)),
     nleads      |-> Max(0, Min(RequestedPageSize(req),
                                total - (RequestedPage(req) - 1) * RequestedPageSize(req)))]

(***************************************************************************)
(* The lead store and the query service over it, as the specification      *)
(* describes them (sections 3 and 4.1).                                    *)
(***************************************************************************)
\* The rows the pipeline can have produced, by id. Scores are sums of the
\* documented signal points, so multiples of 5 from 0 to 75.   README.md:89-99
LeadRows ==
    <<[id |-> 1, name |-> "Acme Produce", city |-> Some("Austin"), state |-> Some("TX"),
       country |-> Some("US"), source |-> Some("usda"), email |-> None,
       score |-> None, is_qualified |-> None, last_enriched_at |-> None,
       company_type |-> None, has_linkedin |-> None],
      [id |-> 2, name |-> "Sunny Farm Co", city |-> Some("Fresno"), state |-> Some("CA"),
       country |-> Some("USA"), source |-> Some("usda"), email |-> Some("info@sunnyfarm.com"),
       score |-> Some(20), is_qualified |-> Some(TRUE), last_enriched_at |-> Some("2024-01-05"),
       company_type |-> Some("farm"), has_linkedin |-> Some(TRUE)],
      [id |-> 3, name |-> "Maple Foods", city |-> Some("Toronto"), state |-> Some("ON"),
       country |-> Some("Canada"), source |-> Some("manual"), email |-> Some("hello@maple.ca"),
       score |-> Some(40), is_qualified |-> Some(FALSE), last_enriched_at |-> Some("2024-01-06"),
       company_type |-> Some("distributor"), has_linkedin |-> Some(FALSE)],
      [id |-> 4, name |-> "Green Valley", city |-> Some("Farmington"), state |-> Some("NM"),
       country |-> None, source |-> Some("usda"), email |-> Some(""),
       score |-> Some(0), is_qualified |-> Some(FALSE), last_enriched_at |-> None,
       company_type |-> Some("farm"), has_linkedin |-> None],
      [id |-> 5, name |-> "Harvest Hub", city |-> None, state |-> Some("CA"),
       country |-> Some("US"), source |-> Some("manual"), email |-> Some("sales@farmfresh.io"),
       score |-> Some(75), is_qualified |-> Some(TRUE), last_enriched_at |-> Some("2024-01-07"),
       company_type |-> Some("distributor"), has_linkedin |-> Some(TRUE)],
      [id |-> 6, name |-> "Bay Bakery", city |-> Some("Oakland"), state |-> Some("CA"),
       country |-> Some("Mexico"), source |-> Some("usda"), email |-> None,
       score |-> Some(45), is_qualified |-> Some(TRUE), last_enriched_at |-> Some("2024-01-08"),
       company_type |-> None, has_linkedin |-> Some(FALSE)]>>

LeadIds == DOMAIN LeadRows

\* Country values that mean the United States.
UsCountries == {"US", "USA", "United States"}

\* Lower-casing of the texts a search compares.
Lower(text) ==
    CASE text = "FARM" -> "farm"
      [] text = "Acme Produce" -> "acme produce"
      [] text = "Sunny Farm Co" -> "sunny farm co"
      [] text = "Maple Foods" -> "maple foods"
      [] text = "Green Valley" -> "green valley"
      [] text = "Harvest Hub" -> "harvest hub"
      [] text = "Bay Bakery" -> "bay bakery"
      [] text = "Austin" -> "austin"
      [] text = "Fresno" -> "fresno"
      [] text = "Toronto" -> "toronto"
      [] text = "Farmington" -> "farmington"
      [] text = "Oakland" -> "oakland"
      [] OTHER -> text

\* Case-insensitive substring match over name, city and email.
SearchMatches(lead, term) ==
    LET t == Lower(term)
    IN \/ Contains(Lower(lead.name), t)
       \/ lead.city # None /\ Contains(Lower(Val(lead.city)), t)
       \/ lead.email # None /\ Contains(Lower(Val(lead.email)), t)

FilterKeys == {"state", "source", "min_score", "max_score", "is_qualified",
               "has_email", "is_us", "is_enriched", "company_type",
               "has_linkedin", "search"}

\* Whether a lead passes the filter `key` of a request, given as its text.
Accepts(key, text, lead) ==
    CASE key = "state" -> lead.state = Some(text)
      [] key = "source" -> lead.source = Some(text)
      [] key = "min_score" -> lead.score # None /\ Val(lead.score) >= ParseInt(text).n
      [] key = "max_score" -> lead.score # None /\ Val(lead.score) <= ParseInt(text).n
      [] key = "is_qualified" -> lead.is_qualified = Some(text = "true")
      [] key = "has_email" -> (text = "true") <=> TruthyStr(lead.email)
      [] key = "is_us" ->
            IF text = "true"
            THEN lead.country # None /\ Val(lead.country) \in UsCountries
            ELSE lead.country # None /\ Val(lead.country) \notin UsCountries
      [] key = "is_enriched" -> (text = "true") <=> (lead.last_enriched_at # None)
      [] key = "company_type" -> lead.company_type = Some(text)
      [] key = "has_linkedin" -> lead.has_linkedin = Some(text = "true")
      [] key = "search" -> text = "" \/ SearchMatches(lead, text)

\* The stored leads a request matches: each filter it carries narrows them.
Matching(ids, req) ==
    {id \in ids : \A key \in FilterKeys :
                      req[key] = None \/ Accepts(key, Val(req[key]), LeadRows[id])}

\* Names, cities and states in alphabetical order.
Alphabetical ==
    <<"Acme Produce", "Austin", "Bay Bakery", "CA", "Farmington", "Fresno",
      "Green Valley", "Harvest Hub", "Maple Foods", "NM", "ON", "Oakland",
      "Sunny Farm Co", "TX", "Toronto">>

TextRank(o) ==
    IF o = None THEN 0 ELSE CHOOSE i \in DOMAIN Alphabetical : Alphabetical[i] = Val(o)

\* The value a lead is ordered by; created_at follows the id, and a field
\* outside the allow-list falls back to the default, score.
SortValue(lead, field) ==
    CASE field = "name" -> TextRank(Some(lead.name))
      [] field = "city" -> TextRank(lead.city)
      [] field = "state" -> TextRank(lead.state)
      [] field = "created_at" -> lead.id
      [] OTHER -> IF lead.score = None THEN 0 - 1 ELSE Val(lead.score)

\* Lead a comes before lead b: by sort_by in sort_order, ties by id ascending.
Before(a, b, req) ==
    LET field == IF req["sort_by"] = None THEN "score" ELSE Val(req["sort_by"])
        va == SortValue(LeadRows[a], field)
        vb == SortValue(LeadRows[b], field)
    IN IF va = vb THEN a < b
       ELSE IF req["sort_order"] = Some("asc") THEN va < vb
       ELSE va > vb

\* The ids on the requested page, in order.
PageOf(ids, req) ==
    LET matching == Matching(ids, req)
        position(id) == 1 + Cardinality({o \in matching : Before(o, id, req)})
        first == (RequestedPage(req) - 1) * RequestedPageSize(req) + 1
        count == ListResponse(req, Cardinality(matching)).nleads
    IN [i \in 1..count |-> CHOOSE id \in matching : position(id) = first + i - 1]

\* GET /leads/ over the stored leads `ids`.
QueryService(ids, req) ==
    [leads |-> PageOf(ids, req),
     page  |-> ListResponse(req, Cardinality(Matching(ids, req)))]

(***************************************************************************)
(* The list page's rendering of its query result.                          *)
(***************************************************************************)
Pending == [status |-> "pending", data |-> None]
Failed == [status |-> "error", data |-> None]
\* The result of a query or mutation whose function threw Error(msg).
FailedWith(msg) == [status |-> "error", data |-> None, error |-> msg]
Succeeded(d) == [status |-> "success", data |-> Some(d)]

\* useQuery's isLoading: the first fetch of a key is under way.
isLoading(q) == q.status = "pending"

\* <p>{leadsData ? `${total} leads found` : 'Loading...'}</p>   page.tsx:121
ListHeader(q) ==
    IF q.data # None THEN "leads found" ELSE "Loading..."

\* <tbody>                                                    page.tsx:255-350
ListBody(q) ==
    IF isLoading(q) THEN "skeleton"
    ELSE IF q.data # None /\ Val(q.data).nleads = 0 THEN "No leads found"
    ELSE IF q.data # None THEN "rows"
    ELSE "no rows"

ListRendering(q) == <<ListHeader(q), ListBody(q)>>

\* The Status cell of a row: {lead.is_qualified ? 'Qualified' : 'Disqualified'}
\*                                                            page.tsx:329-339
StatusCell(lead) ==
    IF lead.is_qualified = Some(TRUE) THEN "Qualified" ELSE "Disqualified"

\* Pagination controls                                        page.tsx:356-390
PaginationShown(q) == q.data # None /\ Val(q.data).total_pages > 1

\* Variant of PreviousEnabled that is not disabled on the first page.
PreviousEnabled_OnFirstPage(q) == PaginationShown(q)

\* disabled={leadsData.page <= 1}, disabled={leadsData.page >= total_pages}
PreviousEnabled(q) == PaginationShown(q) /\ ~(Val(q.data).page <= 1)
NextEnabled(q) == PaginationShown(q) /\ ~(Val(q.data).page >= Val(q.data).total_pages)

(***************************************************************************)
(* Inputs of the list page.                                                *)
(***************************************************************************)
States == {"CA"}
Sources == {"usda"}
SearchTexts == {"", "farm"}
Columns == {"name", "city", "state", "contact", "source", "score", "status", "actions"}
Sortable == {"name", "state", "score"}

\* URLs a user opens from the address bar or a bookmark.
Bookmarks ==
    {EmptyUrl,
     [EmptyUrl EXCEPT !["page"] = Some("2")],
     [EmptyUrl EXCEPT !["page"] = Some("0")],
     [EmptyUrl EXCEPT !["page"] = Some("abc")],
     [EmptyUrl EXCEPT !["page"] = Some("-1")],
     [EmptyUrl EXCEPT !["page_size"] = Some("500")],
     [EmptyUrl EXCEPT !["sort_by"] = Some("bogus")],
     [EmptyUrl EXCEPT !["is_us"] = Some("all"), !["search"] = Some("farm")]}

\* router.push(url): the page re-renders with the new searchParams; useQuery
\* fetches when the query key ['leads', params] changes.
QueryAfterPush(sp, newSp, q) ==
    IF Params(newSp) = Params(sp) THEN q ELSE Pending

\* Variant of RequestAfterPush whose request reads the search box instead of
\* the URL's search term.
RequestAfterPush_ReadsSearchBox(sp, newSp, input, req) ==
    IF Params(newSp) = Params(sp)
    THEN req
    ELSE getLeads([Params(newSp) EXCEPT !.search = IF input = "" THEN None ELSE Some(input)])

\* The request last issued: queryFn: () => getLeads(params). `input` is the
\* search box's text, which the request does not read.
RequestAfterPush(sp, newSp, input, req) ==
    IF Params(newSp) = Params(sp) THEN req ELSE getLeads(Params(newSp))

\* What the last handler was, the page parameter it started from, and the
\* option it was given (for a select).
Op(name, from, arg) == [op |-> name, from |-> from, arg |-> arg]

ActiveKeys(sp) == {k \in UrlKeys \ {"page"} : sp[k] # None}

Push(newSp, name, arg) ==
    /\ Cardinality(ActiveKeys(newSp)) <= MaxActive
    /\ searchParams' = newSp
    /\ leadsQuery' = QueryAfterPush(searchParams, newSp, leadsQuery)
    /\ request' = RequestAfterPush(searchParams, newSp, searchInput, request)
    /\ listOp' = Op(name, searchParams["page"], arg)

\* <select value={params.state || ''} onChange=...>           page.tsx:143-154
SelectState ==
    \E v \in {""} \cup States :
        /\ v # GetOr(searchParams, "state", "")
        /\ Push(updateParams(searchParams,
                  [k \in {"state"} |-> IF v = "" THEN JsUndefined ELSE JsString(v)]),
                "state", v)
        /\ UNCHANGED searchInput

\* page.tsx:157-168
SelectSource ==
    \E v \in {""} \cup Sources :
        /\ v # GetOr(searchParams, "source", "")
        /\ Push(updateParams(searchParams,
                  [k \in {"source"} |-> IF v = "" THEN JsUndefined ELSE JsString(v)]),
                "source", v)
        /\ UNCHANGED searchInput

\* value of a tri-state select: '' | 'true' | 'false'
TriSelectValue(o) == IF o = None THEN "" ELSE BoolToString(Val(o))

\* page.tsx:171-181
SelectQualified ==
    \E v \in {"", "true", "false"} :
        /\ v # TriSelectValue(Params(searchParams).is_qualified)
        /\ Push(updateParams(searchParams,
                  [k \in {"is_qualified"} |->
                      IF v = "" THEN JsUndefined ELSE JsBoolean(v = "true")]),
                "is_qualified", v)
        /\ UNCHANGED searchInput

\* value of the country select                                page.tsx:185
CountrySelectValue(p) == IF p.is_us = None THEN "all" ELSE BoolToString(Val(p.is_us))

\* page.tsx:184-194: the option's text is passed as is_us
SelectCountry ==
    \E v \in {"true", "false", "all"} :
        /\ v # CountrySelectValue(Params(searchParams))
        /\ Push(updateParams(searchParams, [k \in {"is_us"} |-> JsString(v)]),
                "is_us", v)
        /\ UNCHANGED searchInput

\* page.tsx:197-207
SelectEnriched ==
    \E v \in {"", "true", "false"} :
        /\ v # TriSelectValue(Params(searchParams).is_enriched)
        /\ Push(updateParams(searchParams,
                  [k \in {"is_enriched"} |->
                      IF v = "" THEN JsUndefined ELSE JsBoolean(v = "true")]),
                "is_enriched", v)
        /\ UNCHANGED searchInput

\* onChange of the search box                                 page.tsx:136
TypeSearch ==
    \E v \in SearchTexts :
        /\ v # searchInput
        /\ searchInput' = v
        /\ listOp' = Op("type", None, v)
        /\ UNCHANGED <<searchParams, leadsQuery, request>>

\* handleSearch                                               page.tsx:87-90
handleSearch ==
    /\ Push(updateParams(searchParams,
              [k \in {"search"} |->
                  IF searchInput = "" THEN JsUndefined ELSE JsString(searchInput)]),
            "search", searchInput)
    /\ UNCHANGED searchInput

\* handleSort(column)                                         page.tsx:78-84
SortParams_NewColumnAscending(p, column) ==
    IF Val(p.sort_by) = column
    THEN [k \in {"sort_order"} |->
            JsString(IF Val(p.sort_order) = "asc" THEN "desc" ELSE "asc")]
    ELSE [k \in {"sort_by", "sort_order"} |->
            IF k = "sort_by" THEN JsString(column) ELSE JsString("asc")]

SortParams(p, column) ==
    IF Val(p.sort_by) = column
    THEN [k \in {"sort_order"} |->
            JsString(IF Val(p.sort_order) = "asc" THEN "desc" ELSE "asc")]
    ELSE [k \in {"sort_by", "sort_order"} |->
            IF k = "sort_by" THEN JsString(column) ELSE JsString("desc")]

\* onClick={() => col.sortable && handleSort(col.key)}        page.tsx:244
ClickHeader ==
    \E col \in Columns :
        /\ col \in Sortable
        /\ Push(updateParams(searchParams, SortParams(Params(searchParams), col)),
                "sort", col)
        /\ UNCHANGED searchInput

\* Previous button                                            page.tsx:362-374
ClickPrevious ==
    /\ PreviousEnabled(leadsQuery)
    /\ Push(updateParams(searchParams,
              [k \in {"page"} |-> JsNumber(Val(leadsQuery.data).page - 1)]),
            "page", "")
    /\ UNCHANGED searchInput

\* Next button                                                page.tsx:375-387
ClickNext ==
    /\ NextEnabled(leadsQuery)
    /\ Val(leadsQuery.data).page + 1 <= MaxPage
    /\ Push(updateParams(searchParams,
              [k \in {"page"} |-> JsNumber(Val(leadsQuery.data).page + 1)]),
            "page", "")
    /\ UNCHANGED searchInput

\* clearFilters, offered when hasActiveFilters                page.tsx:93-96,210
clearFilters ==
    /\ hasActiveFilters(Params(searchParams))
    /\ searchInput' = ""
    /\ Push(EmptyUrl, "clear", "")

\* Opening a URL afresh mounts the page: useState(params.search || '')
OpenUrl ==
    \E b \in Bookmarks :
        /\ searchParams' = b
        /\ searchInput' = GetOr(b, "search", "")
        /\ leadsQuery' = Pending
        /\ request' = getLeads(Params(b))
        /\ listOp' = Op("open", None, "")

\* router.push adds the URL it leaves to the browser's history.
Pushed(handler) == handler /\ backUrl' = Some(searchParams)

\* A step that stays on the current history entry.
Stays(step) == step /\ UNCHANGED backUrl

\* A URL opened from the address bar: nothing of the page's history is
\* behind it.
Opened(step) == step /\ backUrl' = None

\* The browser's Back button (and Forward after it): the URL becomes the
\* history entry's, the page stays mounted and re-renders with the new
\* searchParams; its useState values are kept.                  page.tsx:25,44
BrowserBack ==
    /\ backUrl # None
    /\ searchParams' = Val(backUrl)
    /\ backUrl' = Some(searchParams)
    /\ leadsQuery' = QueryAfterPush(searchParams, Val(backUrl), leadsQuery)
    /\ request' = RequestAfterPush(searchParams, Val(backUrl), searchInput, request)
    /\ listOp' = Op("back", searchParams["page"], "")
    /\ UNCHANGED searchInput

\* The list request is answered.
LeadsLoaded ==
    \E total \in Totals :
        /\ leadsQuery.status = "pending"
        /\ leadsQuery' = Succeeded(ListResponse(request, total))
        /\ listOp' = Op("loaded", None, "")
        /\ UNCHANGED <<searchParams, searchInput, request>>

\* The list request fails (fetchAPI throws on a non-2xx answer or a network error).
LeadsFailed ==
    /\ leadsQuery.status = "pending"
    /\ leadsQuery' = Failed
    /\ listOp' = Op("failed", None, "")
    /\ UNCHANGED <<searchParams, searchInput, request>>

ListInit ==
    /\ searchParams = EmptyUrl
    /\ searchInput = ""
    /\ leadsQuery = Pending
    /\ request = getLeads(Params(EmptyUrl))
    /\ listOp = Op("open", None, "")
    /\ backUrl = None


(***************************************************************************)
(* Draft-email modal: components/draft-email-modal.tsx                     *)
(*                                                                         *)
(* useMutation (TanStack Query v5) as the component uses it: mutate()      *)
(* starts a new mutation that the hook's result follows; reset() returns   *)
(* the result to idle and stops following the mutation without cancelling  *)
(* it; the onSuccess given to useMutation runs when the mutation succeeds, *)
(* whether or not the result still follows it. postAPI passes no abort     *)
(* signal to fetch, so a request once sent is answered.                    *)
(***************************************************************************)
Idle == [status |-> "idle", data |-> None]

\* DraftEmailResponse of request k: every generation gives its own text.
DraftSubject(k) == "subject#" \o ToString(k)
DraftBody(k) == "body#" \o ToString(k)
DraftInfo(k) == "research#" \o ToString(k)
DraftData(k) ==
    [subject |-> DraftSubject(k), body |-> DraftBody(k), enriched_info |-> Some(DraftInfo(k))]

Fields(s, b, e) == [subject |-> s, body |-> b, enrichedInfo |-> e]

\* The answers of POST /email/{id}/draft that are not a draft: a non-2xx
\* status with an error body, or no answer at all (fetch rejects).
ErrorBodies == {"", "Internal Server Error", "{\"detail\":\"Lead not found\"}"}
HttpFailures == [kind : {"http"}, status : {404, 500}, body : ErrorBodies]
NetworkFailure == [kind |-> "network"]
DraftFailures == HttpFailures \cup {NetworkFailure}

\* Variant of postAPIError that reports the status only.
postAPIError_StatusOnly(resp) ==
    IF resp.kind = "http"
    THEN "API error: " \o ToString(resp.status)
    ELSE "Failed to fetch"

\* The message of the error generateDraftEmail rejects with:
\* `API error: ${res.status} ${errorText}`, errorText = await res.text().
\*                                                              api.ts:67-70
postAPIError(resp) ==
    IF resp.kind = "http"
    THEN "API error: " \o ToString(resp.status) \o " " \o resp.body
    ELSE "Failed to fetch"

\* {mutation.error?.message || 'An unexpected error occurred'}
\*                                                 draft-email-modal.tsx:138
ErrorText(m) ==
    IF m.status = "error" /\ m.error # "" THEN m.error ELSE "An unexpected error occurred"

\* Variant of FieldsAfterSettle that appends a new draft to the text held.
FieldsAfterSettle_Appends(fields, ok, data) ==
    IF ok
    THEN Fields(fields.subject \o data.subject, fields.body \o data.body, data.enriched_info)
    ELSE fields

\* Variant of FieldsAfterSettle that clears the draft when a generation fails.
FieldsAfterSettle_ClearsOnError(fields, ok, data) ==
    IF ok
    THEN Fields(data.subject, data.body, data.enriched_info)
    ELSE Fields("", "", None)

\* The callbacks given to useMutation: onSuccess stores the response, and
\* there is no onError.                                 draft-email-modal.tsx:38-45
FieldsAfterSettle(fields, ok, data) ==
    IF ok
    THEN Fields(data.subject, data.body, data.enriched_info)
    ELSE fields

\* Variant of GenerateOnOpen that does not look at isOpen.
GenerateOnOpen_IgnoresIsOpen(open, m) ==
    m.status # "pending" /\ m.data = None

\* if (isOpen && !mutation.isPending && !mutation.data) mutation.mutate()
\*                                                      draft-email-modal.tsx:48-52
GenerateOnOpen(open, m) ==
    open /\ m.status # "pending" /\ m.data = None

\* What the modal shows                                 draft-email-modal.tsx:77,121-147
ModalView(open, m) ==
    IF ~open THEN "none"
    ELSE IF m.status = "pending" THEN "researching"
    ELSE IF m.status = "error" THEN "error"
    ELSE "form"

\* The Try Again button is part of the error view       draft-email-modal.tsx:140-145
TryAgainShown(open, m) == ModalView(open, m) = "error"

\* The footer with Regenerate                           draft-email-modal.tsx:293-300
RegenerateShown(open, m) == open /\ m.status # "pending" /\ m.status # "error"

\* mutation.mutate(), `n` times in one step (n is 0 or 1).
Mutate(n) ==
    IF n = 0
    THEN UNCHANGED <<inflight, issued>>
    ELSE /\ inflight' = inflight \cup {issued + 1}
         /\ issued' = issued + 1

\* The parent sets isOpen to true; both effects run, the first may generate.
Open ==
    /\ ~isOpen
    /\ issued < MaxRequests
    /\ isOpen' = TRUE
    /\ LET n == IF GenerateOnOpen(TRUE, mutation) THEN 1 ELSE 0
       IN /\ Mutate(n)
          /\ mutation' = IF n = 1 THEN Pending ELSE mutation
          /\ current' = IF n = 1 THEN issued + 1 ELSE current
          /\ modalOp' = "open"
    /\ UNCHANGED <<subject, body, enrichedInfo, draftResponse>>

\* onClose: the parent sets isOpen to false; both effects run, the second
\* clears the fields and resets the mutation.           draft-email-modal.tsx:55-64
Close ==
    /\ isOpen
    /\ isOpen' = FALSE
    /\ LET n == IF GenerateOnOpen(FALSE, mutation) /\ issued < MaxRequests THEN 1 ELSE 0
       IN /\ Mutate(n)
          /\ modalOp' = "close"
    /\ subject' = ""
    /\ body' = ""
    /\ enrichedInfo' = None
    /\ mutation' = Idle
    /\ current' = 0
    /\ UNCHANGED draftResponse

\* Regenerate button                                    draft-email-modal.tsx:295-300
Regenerate ==
    /\ RegenerateShown(isOpen, mutation)
    /\ issued < MaxRequests
    /\ Mutate(1)
    /\ mutation' = Pending
    /\ current' = issued + 1
    /\ modalOp' = "regenerate"
    /\ UNCHANGED <<isOpen, subject, body, enrichedInfo, draftResponse>>

\* Try Again button                                     draft-email-modal.tsx:140-145
TryAgain ==
    /\ TryAgainShown(isOpen, mutation)
    /\ issued < MaxRequests
    /\ Mutate(1)
    /\ mutation' = Pending
    /\ current' = issued + 1
    /\ modalOp' = "try_again"
    /\ UNCHANGED <<isOpen, subject, body, enrichedInfo, draftResponse>>

\* The user edits the subject or the body in the form    draft-email-modal.tsx:251,282
EditSubject ==
    /\ ModalView(isOpen, mutation) = "form"
    /\ subject # "edited"
    /\ subject' = "edited"
    /\ modalOp' = "edit"
    /\ UNCHANGED <<isOpen, mutation, current, inflight, issued, body, enrichedInfo,
                   draftResponse>>

EditBody ==
    /\ ModalView(isOpen, mutation) = "form"
    /\ body # "edited"
    /\ body' = "edited"
    /\ modalOp' = "edit"
    /\ UNCHANGED <<isOpen, mutation, current, inflight, issued, subject, enrichedInfo,
                   draftResponse>>

\* Request k is answered with resp: a draft (kind "ok") or a failure.
Settle(k, resp) ==
    /\ inflight' = inflight \ {k}
    /\ LET f == FieldsAfterSettle(Fields(subject, body, enrichedInfo),
                                  resp.kind = "ok", DraftData(k))
       IN /\ subject' = f.subject
          /\ body' = f.body
          /\ enrichedInfo' = f.enrichedInfo
    /\ mutation' = IF current # k THEN mutation
                   ELSE IF resp.kind = "ok" THEN [status |-> "success", data |-> Some(k)]
                   ELSE FailedWith(postAPIError(resp))
    /\ draftResponse' = [request |-> k, answer |-> resp]
    /\ UNCHANGED <<isOpen, current, issued>>

DraftGenerated ==
    \E k \in inflight :
        /\ Settle(k, [kind |-> "ok"])
        /\ modalOp' = "generated"

DraftFailed ==
    \E k \in inflight, resp \in DraftFailures :
        /\ Settle(k, resp)
        /\ modalOp' = "failed"

ModalInit ==
    /\ isOpen = FALSE
    /\ mutation = Idle
    /\ current = 0
    /\ inflight = {}
    /\ issued = 0
    /\ subject = ""
    /\ body = ""
    /\ enrichedInfo = None
    /\ modalOp = "mount"
    /\ draftResponse = [request |-> 0, answer |-> [kind |-> "none"]]

(***************************************************************************)
(* Lead detail view: app/leads/[id]/page.tsx and lib/utils.ts              *)
(***************************************************************************)
\* JSON values.
JNull == [t |-> "null"]
JBool(b) == [t |-> "boolean", b |-> b]
JNum(n) == [t |-> "number", n |-> n]
JStr(s) == [t |-> "string", s |-> s]
JArr(items) == [t |-> "array", items |-> items]
JObj(fields) == [t |-> "object", fields |-> fields]
SyntaxError == [t |-> "SyntaxError"]

\* Stored tech_stack texts: JSON of several shapes and text that is not JSON.
TechTexts ==
    {"", "wordpress, shopify", "[\"wordpress\"", "null", "true", "0", "5",
     "\"\"", "\"wordpress\"", "[]", "[\"wordpress\",\"shopify\"]", "[1,2]",
     "[{\"name\":\"wordpress\"}]", "[null,\"shopify\"]", "{}",
     "{\"wordpress\":true}", "{\"length\":2}"}

\* JSON.parse on the texts above; text that is not JSON throws SyntaxError.
JsonParse(text) ==
    CASE text = "null" -> JNull
      [] text = "true" -> JBool(TRUE)
      [] text = "0" -> JNum(0)
      [] text = "5" -> JNum(5)
      [] text = "\"\"" -> JStr("")
      [] text = "\"wordpress\"" -> JStr("wordpress")
      [] text = "[]" -> JArr(<<>>)
      [] text = "[\"wordpress\",\"shopify\"]" -> JArr(<<JStr("wordpress"), JStr("shopify")>>)
      [] text = "[1,2]" -> JArr(<<JNum(1), JNum(2)>>)
      [] text = "[{\"name\":\"wordpress\"}]" ->
             JArr(<<JObj([k \in {"name"} |-> JStr("wordpress")])>>)
      [] text = "[null,\"shopify\"]" -> JArr(<<JNull, JStr("shopify")>>)
      [] text = "{}" -> JObj(<<>>)
      [] text = "{\"wordpress\":true}" -> JObj([k \in {"wordpress"} |-> JBool(TRUE)])
      [] text = "{\"length\":2}" -> JObj([k \in {"length"} |-> JNum(2)])
      [] OTHER -> SyntaxError

\* parseJsonSafe: null for null and '', the parsed value of any JSON text,
\* null when JSON.parse throws.                                 utils.ts:57-64
parseJsonSafe(str) ==
    IF str = None \/ str = Some("") THEN JNull
    ELSE IF JsonParse(Val(str)) = SyntaxError THEN JNull
    ELSE JsonParse(Val(str))

\* JavaScript truthiness of a parsed value.
Truthy(v) ==
    CASE v.t = "null" -> FALSE
      [] v.t = "boolean" -> v.b
      [] v.t = "number" -> v.n # 0
      [] v.t = "string" -> v.s # ""
      [] OTHER -> TRUE

\* v.length > 0 : strings and arrays have a length, an object has one only as
\* a property of that name, any other value gives undefined > 0, false.
LengthPositive(v) ==
    CASE v.t = "string" -> Len(v.s) > 0
      [] v.t = "array" -> Len(v.items) > 0
      [] v.t = "object" ->
            /\ "length" \in DOMAIN v.fields
            /\ v.fields["length"].t = "number"
            /\ v.fields["length"].n > 0
      [] OTHER -> FALSE

\* {tech} as a React child: text for a string or a number, nothing for null
\* or a boolean; an object is not a valid child and makes the render throw.
ChildText(item) ==
    CASE item.t = "string" -> item.s
      [] item.t = "number" -> ToString(item.n)
      [] OTHER -> ""

ValidChild(item) == item.t # "object"

\* {techStack && techStack.length > 0 && (... techStack.map(...))}
\* Only an array has map: for any other value with a positive length the
\* call throws TypeError.                                       page.tsx:333-347
DetectedTech(v) ==
    IF ~(Truthy(v) /\ LengthPositive(v))
    THEN [raised |-> FALSE, shown |-> FALSE, entries |-> <<>>]
    ELSE IF v.t # "array" \/ \E i \in 1..Len(v.items) : ~ValidChild(v.items[i])
    THEN [raised |-> TRUE, shown |-> FALSE, entries |-> <<>>]
    ELSE [raised |-> FALSE, shown |-> TRUE,
          entries |-> [i \in 1..Len(v.items) |-> ChildText(v.items[i])]]

\* Variant of QualifiedLabel that takes a lead without a decision as qualified.
QualifiedLabel_NullIsQualified(lead) ==
    IF lead.is_qualified # Some(FALSE) THEN "Qualified" ELSE "Disqualified"

\* {lead.is_qualified ? 'Qualified' : 'Disqualified'}          page.tsx:126-133
QualifiedLabel(lead) ==
    IF lead.is_qualified = Some(TRUE) THEN "Qualified" ELSE "Disqualified"

\* {!lead.is_qualified && lead.disqualification_reason && ...}  page.tsx:382
ReasonShown(lead) ==
    /\ lead.is_qualified # Some(TRUE)
    /\ TruthyStr(lead.disqualification_reason)

Skeleton == [view |-> "loading"]
NotFound == [view |-> "Lead Not Found"]
Crashed == [view |-> "render raised"]

\* LeadDetailPage's render for a query result.                  page.tsx:41-395
RenderDetail(q) ==
    IF q.status = "pending" THEN Skeleton
    ELSE IF q.status = "error" \/ q.data = None THEN NotFound
    ELSE LET lead == Val(q.data)
             tech == DetectedTech(parseJsonSafe(lead.tech_stack))
         IN IF tech.raised
            THEN Crashed
            ELSE [view |-> "lead",
                  status |-> QualifiedLabel(lead),
                  reason |-> IF ReasonShown(lead) THEN lead.disqualification_reason ELSE None,
                  techShown |-> tech.shown,
                  tech |-> tech.entries]

\* Lead records the detail endpoint may return.
Leads ==
    [tech_stack : {None} \cup {Some(t) : t \in TechTexts},
     is_qualified : {None, Some(TRUE), Some(FALSE)},
     disqualification_reason : {None, Some(""), Some("No website")}]

\* GET /leads/{id} answers with a lead.
LeadLoaded ==
    \E lead \in Leads :
        /\ leadQuery.status = "pending"
        /\ leadQuery' = Succeeded(lead)
        /\ detailView' = RenderDetail(leadQuery')

\* The errors getLead can end with: fetchAPI's `API error: ${status}
\* ${statusText}` for a non-2xx answer, or fetch's own TypeError when the
\* API cannot be reached.                                       api.ts:13-19
NotFoundError == "API error: 404 Not Found"
UnavailableErrors ==
    {"API error: 500 Internal Server Error",
     "API error: 503 Service Unavailable",
     "Failed to fetch"}
LeadFailures == {NotFoundError} \cup UnavailableErrors

\* The controls of a rendered detail view that act on the request or leave
\* the page: the error view has one button, router.push('/leads'), and the
\* lead view one link to /leads.                          page.tsx:64-69,80-86
ViewControls(v) ==
    CASE v.view = "Lead Not Found" -> {"Back to Leads"}
      [] v.view = "lead" -> {"Back to Leads"}
      [] OTHER -> {}

\* GET /leads/{id} fails (fetchAPI throws).
LeadFailed ==
    \E msg \in LeadFailures :
        /\ leadQuery.status = "pending"
        /\ leadQuery' = FailedWith(msg)
        /\ detailView' = RenderDetail(leadQuery')

\* The user opens another lead's page.
VisitLead ==
    /\ leadQuery.status # "pending"
    /\ leadQuery' = Pending
    /\ detailView' = RenderDetail(leadQuery')

DetailInit ==
    /\ leadQuery = Pending
    /\ detailView = Skeleton

(***************************************************************************)
(* The statistics service (specification, section 4.2) and the dashboard   *)
(* page's rendering of its answers.                                        *)
(*                                                                         *)
(* A percentage with one decimal place is held as its number of tenths:    *)
(* 66.7 is Num(667).                                                       *)
(***************************************************************************)
\* Variant of EnrichmentPercentage that divides without looking at total.
EnrichmentPercentage_DividesByZero(enriched, total) ==
    IF total = 0 THEN NaN ELSE Num((2000 * enriched + total) \div (2 * total))

\* 100 * enriched / total rounded to one decimal place, 0 for an empty store.
EnrichmentPercentage(enriched, total) ==
    IF total = 0 THEN Num(0) ELSE Num((2000 * enriched + total) \div (2 * total))

\* GET /stats/overview over the stored leads `ids`.
Overview(ids) ==
    LET count(P(_)) == Cardinality({id \in ids : P(LeadRows[id])})
        qualified(l) == l.is_qualified = Some(TRUE)
        disqualified(l) == l.is_qualified = Some(FALSE)
        with_email(l) == TruthyStr(l.email)
        enriched(l) == l.last_enriched_at # None
    IN [total                 |-> Cardinality(ids),
        qualified             |-> count(qualified),
        disqualified          |-> count(disqualified),
        with_email            |-> count(with_email),
        enriched              |-> count(enriched),
        not_enriched          |-> Cardinality(ids) - count(enriched),
        enrichment_percentage |-> EnrichmentPercentage(count(enriched), Cardinality(ids))]

\* The Qualified card's subtitle number,
\* ((stats.qualified / stats.total) * 100).toFixed(1): 0 / 0 is NaN (a
\* positive count over 0 would be Infinity; a count within total never is).
\*                                                        DashboardPage, line 68
QualifiedShare(stats) ==
    IF stats.total = 0 THEN NaN
    ELSE Num((2000 * stats.qualified + stats.total) \div (2 * stats.total))

\* max = 100                                                 progress-bar.tsx:17
ProgressMax == 100

\* const percentage = Math.min((value / max) * 100, 100): Math.min of NaN is
\* NaN.                                                      progress-bar.tsx:24
ProgressPercentage(value, max) ==
    IF value.nan THEN NaN ELSE Num(Min((value.n * 100) \div max, 1000))

\* Variant of Buckets whose neighbouring ranges share their edge.
Buckets_SharedEdges ==
    <<[range |-> "0-20", min_score |-> 0, max_score |-> 20],
      [range |-> "21-40", min_score |-> 20, max_score |-> 40],
      [range |-> "41-60", min_score |-> 40, max_score |-> 60],
      [range |-> "61-80", min_score |-> 60, max_score |-> 80]>>

\* The fixed score ranges, named as the chart names them.  score-chart.tsx:36-49
Buckets ==
    <<[range |-> "0-20", min_score |-> 0, max_score |-> 20],
      [range |-> "21-40", min_score |-> 21, max_score |-> 40],
      [range |-> "41-60", min_score |-> 41, max_score |-> 60],
      [range |-> "61-80", min_score |-> 61, max_score |-> 80]>>

\* GET /stats/score-distribution over the stored leads `ids`.
ScoreDistributionOf(ids) ==
    [i \in DOMAIN Buckets |->
        [range     |-> Buckets[i].range,
         min_score |-> Buckets[i].min_score,
         max_score |-> Buckets[i].max_score,
         count     |-> Cardinality({id \in ids :
                          /\ LeadRows[id].score # None
                          /\ Val(LeadRows[id].score) >= Buckets[i].min_score
                          /\ Val(LeadRows[id].score) <= Buckets[i].max_score})]]

\* getBarColor                                             score-chart.tsx:36-49
getBarColor(range) ==
    CASE range = "0-20" -> "var(--border-strong)"
      [] range = "21-40" -> "#eab308"
      [] range = "41-60" -> "#22c55e"
      [] range = "61-80" -> "var(--accent-primary)"
      [] OTHER -> "var(--text-tertiary)"

\* <Bar dataKey="count"> with one <Cell> per entry          score-chart.tsx:73-77
ChartBars(data) ==
    [i \in DOMAIN data |->
        [range |-> data[i].range, height |-> data[i].count,
         fill |-> getBarColor(data[i].range)]]

\* The chart's legend: one entry per range                   score-chart.tsx:83-88
Legend ==
    <<[range |-> "0-20", label |-> "Low", color |-> "var(--border-strong)"],
      [range |-> "21-40", label |-> "Fair", color |-> "#eab308"],
      [range |-> "41-60", label |-> "Good", color |-> "#22c55e"],
      [range |-> "61-80", label |-> "Excellent", color |-> "var(--accent-primary)"]>>

\* getScoreClass                                                  utils.ts:36-42
getScoreClass(score) ==
    IF score = None THEN "score-low"
    ELSE IF Val(score) >= 60 THEN "score-excellent"
    ELSE IF Val(score) >= 40 THEN "score-high"
    ELSE IF Val(score) >= 20 THEN "score-medium"
    ELSE "score-low"

\* getScoreLabel                                                  utils.ts:44-50
getScoreLabel(score) ==
    IF score = None THEN "N/A"
    ELSE IF Val(score) >= 60 THEN "Excellent"
    ELSE IF Val(score) >= 40 THEN "Good"
    ELSE IF Val(score) >= 20 THEN "Fair"
    ELSE "Low"

\* The score badge of the detail page                    [id]/page.tsx:110-122
ScoreBadge(lead) ==
    [class |-> getScoreClass(lead.score), label |-> getScoreLabel(lead.score)]

(***************************************************************************)
(* Calls of the services. One call is answered and rendered at a time.     *)
(***************************************************************************)
NoCall == [op |-> "none"]

\* LeadsQueryParams with no filter.
BaseParams ==
    [k \in ReqKeys |->
        CASE k = "page" -> Some(Num(1))
          [] k = "page_size" -> Some(Num(PageSize))
          [] k = "sort_by" -> Some("score")
          [] k = "sort_order" -> Some("desc")
          [] OTHER -> None]

\* The values a caller supplies for a filter.
Choices(key) ==
    CASE key = "state" -> {Some("CA"), Some("")}
      [] key = "source" -> {Some("usda")}
      [] key \in {"min_score", "max_score"} -> {Some(Num(0)), Some(Num(20))}
      [] key = "company_type" -> {Some("farm")}
      [] key = "search" -> {Some("farm"), Some("FARM")}
      [] OTHER -> {Some(TRUE), Some(FALSE)}

OneFilter ==
    UNION {{[BaseParams EXCEPT ![k] = v] : v \in Choices(k)} : k \in FilterKeys}

TwoFilters ==
    UNION {UNION {{[q EXCEPT ![k] = v] : v \in Choices(k)} :
                     k \in {key \in FilterKeys : q[key] = None}} : q \in OneFilter}

\* page and page_size, and sort_by and sort_order, of a call.
Pagings == {<<1, 2>>, <<2, 2>>, <<3, 2>>, <<2, 1>>, <<1, 500>>}
Sortings == {<<"score", "asc">>, <<"name", "asc">>, <<"state", "desc">>,
             <<"city", "asc">>, <<"created_at", "desc">>}

\* getLeads() with its default argument, {}.                       api.ts:29
NoParams == [k \in ReqKeys |-> None]

QueryInputs ==
    {NoParams, BaseParams} \cup OneFilter \cup TwoFilters
    \cup {[q EXCEPT !["page"] = Some(Num(pg[1])), !["page_size"] = Some(Num(pg[2]))] :
             q \in {BaseParams} \cup OneFilter, pg \in Pagings}
    \cup {[BaseParams EXCEPT !["page"] = Some(Num(pg[1])), !["page_size"] = Some(Num(pg[2])),
                             !["sort_by"] = Some(so[1]), !["sort_order"] = Some(so[2])] :
             pg \in Pagings, so \in Sortings}

\* A request with no query string.
NoQuery == [k \in ReqKeys |-> None]

\* Variant of fetchAPI that sends its request as a POST.
fetchAPI_Posts(path, query) == [method |-> "POST", path |-> path, query |-> query]

\* fetchAPI: fetch(url) with no options, a GET.                  api.ts:13-14
fetchAPI(path, query) == [method |-> "GET", path |-> path, query |-> query]

\* postAPI: fetch(url, {method: 'POST', ...}) without a body.    api.ts:60-66
postAPI(path) == [method |-> "POST", path |-> path, query |-> NoQuery]

\* GET /leads/{id}: the stored lead, or 404.
LeadService(ids, id) ==
    IF id \in ids THEN [ok |-> TRUE, lead |-> LeadRows[id]]
    ELSE [ok |-> FALSE, error |-> NotFoundError]

\* GET /leads/filters/: the distinct values observed in the store.
FilterOptionsOf(ids) ==
    [states        |-> {Val(LeadRows[id].state) : id \in {i \in ids : LeadRows[i].state # None}},
     sources       |-> {Val(LeadRows[id].source) : id \in {i \in ids : LeadRows[i].source # None}},
     company_types |-> {Val(LeadRows[id].company_type) :
                           id \in {i \in ids : LeadRows[i].company_type # None}}]

\* The pipeline's scrape step stores a lead.
PipelineAddsLead ==
    \E id \in LeadIds \ store :
        /\ served = NoCall
        /\ Cardinality(store) < MaxStore
        /\ store' = store \cup {id}
        /\ UNCHANGED served

\* getLeads(params) is called and answered.
QueryLeads ==
    \E p \in QueryInputs :
        /\ served = NoCall
        /\ served' = [op |-> "list", params |-> p,
                      request |-> fetchAPI("/leads/", getLeads(p)),
                      response |-> QueryService(store, getLeads(p))]
        /\ UNCHANGED store

\* getStatsOverview() is called and answered.
StatsOverview ==
    /\ served = NoCall
    /\ served' = [op |-> "overview",
                  request |-> fetchAPI("/stats/overview", NoQuery),
                  response |-> Overview(store)]
    /\ UNCHANGED store

\* getScoreDistribution() is called and answered.
ScoreDistribution ==
    /\ served = NoCall
    /\ served' = [op |-> "score-distribution",
                  request |-> fetchAPI("/stats/score-distribution", NoQuery),
                  response |-> ScoreDistributionOf(store)]
    /\ UNCHANGED store

\* getLead(id) is called and answered.
LeadCall ==
    \E id \in LeadIds :
        /\ served = NoCall
        /\ served' = [op |-> "lead",
                      request |-> fetchAPI("/leads/" \o ToString(id), NoQuery),
                      response |-> LeadService(store, id)]
        /\ UNCHANGED store

\* getFilterOptions() is called and answered.
FilterOptionsCall ==
    /\ served = NoCall
    /\ served' = [op |-> "filters",
                  request |-> fetchAPI("/leads/filters/", NoQuery),
                  response |-> FilterOptionsOf(store)]
    /\ UNCHANGED store

\* generateDraftEmail(leadId) is called and answered with a draft.
DraftCall ==
    \E id \in store :
        /\ served = NoCall
        /\ served' = [op |-> "draft",
                      request |-> postAPI("/email/" \o ToString(id) \o "/draft"),
                      response |-> DraftData(id)]
        /\ UNCHANGED store

\* The answer has been rendered.
Rendered ==
    /\ served # NoCall
    /\ served' = NoCall
    /\ UNCHANGED store

ServiceInit ==
    /\ store = {}
    /\ served = NoCall

(***************************************************************************)
(* Specifications.                                                         *)
(***************************************************************************)
Init == ListInit /\ ModalInit /\ DetailInit /\ ServiceInit

\* The list page; the browser's history, which no step here reads, is left out.
ListNext ==
    \/ SelectState /\ UNCHANGED <<backUrl, modalVars, detailVars, serviceVars>>
    \/ SelectSource /\ UNCHANGED <<backUrl, modalVars, detailVars, serviceVars>>
    \/ SelectQualified /\ UNCHANGED <<backUrl, modalVars, detailVars, serviceVars>>
    \/ SelectCountry /\ UNCHANGED <<backUrl, modalVars, detailVars, serviceVars>>
    \/ SelectEnriched /\ UNCHANGED <<backUrl, modalVars, detailVars, serviceVars>>
    \/ TypeSearch /\ UNCHANGED <<backUrl, modalVars, detailVars, serviceVars>>
    \/ handleSearch /\ UNCHANGED <<backUrl, modalVars, detailVars, serviceVars>>
    \/ ClickHeader /\ UNCHANGED <<backUrl, modalVars, detailVars, serviceVars>>
    \/ ClickPrevious /\ UNCHANGED <<backUrl, modalVars, detailVars, serviceVars>>
    \/ ClickNext /\ UNCHANGED <<backUrl, modalVars, detailVars, serviceVars>>
    \/ clearFilters /\ UNCHANGED <<backUrl, modalVars, detailVars, serviceVars>>
    \/ OpenUrl /\ UNCHANGED <<backUrl, modalVars, detailVars, serviceVars>>
    \/ LeadsLoaded /\ UNCHANGED <<backUrl, modalVars, detailVars, serviceVars>>
    \/ LeadsFailed /\ UNCHANGED <<backUrl, modalVars, detailVars, serviceVars>>

ListSpec == Init /\ [][ListNext]_vars


\* The list page's search and paging together with the browser's history.
HistoryNext ==
    \/ Stays(TypeSearch) /\ UNCHANGED <<modalVars, detailVars, serviceVars>>
    \/ Pushed(handleSearch) /\ UNCHANGED <<modalVars, detailVars, serviceVars>>
    \/ Pushed(SelectState) /\ UNCHANGED <<modalVars, detailVars, serviceVars>>
    \/ Pushed(ClickPrevious) /\ UNCHANGED <<modalVars, detailVars, serviceVars>>
    \/ Pushed(ClickNext) /\ UNCHANGED <<modalVars, detailVars, serviceVars>>
    \/ Pushed(clearFilters) /\ UNCHANGED <<modalVars, detailVars, serviceVars>>
    \/ Opened(OpenUrl) /\ UNCHANGED <<modalVars, detailVars, serviceVars>>
    \/ BrowserBack /\ UNCHANGED <<modalVars, detailVars, serviceVars>>
    \/ Stays(LeadsLoaded) /\ UNCHANGED <<modalVars, detailVars, serviceVars>>
    \/ Stays(LeadsFailed) /\ UNCHANGED <<modalVars, detailVars, serviceVars>>

HistorySpec == Init /\ [][HistoryNext]_vars

ModalNext ==
    \/ Open /\ UNCHANGED <<listVars, detailVars, serviceVars>>
    \/ Close /\ UNCHANGED <<listVars, detailVars, serviceVars>>
    \/ Regenerate /\ UNCHANGED <<listVars, detailVars, serviceVars>>
    \/ TryAgain /\ UNCHANGED <<listVars, detailVars, serviceVars>>
    \/ EditSubject /\ UNCHANGED <<listVars, detailVars, serviceVars>>
    \/ EditBody /\ UNCHANGED <<listVars, detailVars, serviceVars>>
    \/ DraftGenerated /\ UNCHANGED <<listVars, detailVars, serviceVars>>
    \/ DraftFailed /\ UNCHANGED <<listVars, detailVars, serviceVars>>

ModalSpec == Init /\ [][ModalNext]_vars

DetailNext ==
    \/ LeadLoaded /\ UNCHANGED <<listVars, modalVars, serviceVars>>
    \/ LeadFailed /\ UNCHANGED <<listVars, modalVars, serviceVars>>
    \/ VisitLead /\ UNCHANGED <<listVars, modalVars, serviceVars>>

DetailSpec == Init /\ [][DetailNext]_vars

ServiceNext ==
    \/ PipelineAddsLead /\ UNCHANGED <<listVars, modalVars, detailVars>>
    \/ QueryLeads /\ UNCHANGED <<listVars, modalVars, detailVars>>
    \/ StatsOverview /\ UNCHANGED <<listVars, modalVars, detailVars>>
    \/ ScoreDistribution /\ UNCHANGED <<listVars, modalVars, detailVars>>
    \/ LeadCall /\ UNCHANGED <<listVars, modalVars, detailVars>>
    \/ FilterOptionsCall /\ UNCHANGED <<listVars, modalVars, detailVars>>
    \/ DraftCall /\ UNCHANGED <<listVars, modalVars, detailVars>>
    \/ Rendered /\ UNCHANGED <<listVars, modalVars, detailVars>>

ServiceSpec == Init /\ [][ServiceNext]_vars

(***************************************************************************)
(* Claims about the leads list.                                            *)
(***************************************************************************)
FilterOps == {"state", "source", "is_qualified", "is_us", "is_enriched", "search", "sort"}

\* C1: every updateParams call whose argument has no 'page' key (a select
\* change, a search submit, a sort click) navigates to a URL with page=1
\* whatever the page was before; only a call that passes 'page' (Previous,
\* Next) leaves the URL on another page.
C1_FilterChangeResetsPage ==
    /\ listOp.op \in FilterOps => searchParams["page"] = Some("1")
    /\ (listOp.op \in FilterOps \cup {"page"} /\ searchParams["page"] # Some("1"))
          => listOp.op = "page"

C1_Witness ==
    /\ listOp.op \in FilterOps
    /\ listOp.from = Some("2")
    /\ searchParams["page"] = Some("1")

\* The list request of the documented defaults.
DefaultRequest ==
    [k \in ReqKeys |->
        CASE k = "page" -> Some("1")
          [] k = "page_size" -> Some("50")
          [] k = "sort_by" -> Some("score")
          [] k = "sort_order" -> Some("desc")
          [] k = "is_us" -> Some("true")
          [] OTHER -> None]

\* C2: clearFilters leads to the documented defaults: the list request has
\* page=1, page_size=50, sort_by=score, sort_order=desc, is_us=true and no
\* other filter, the search box is empty and hasActiveFilters is false.
C2_ClearFiltersRestoresDefaults ==
    listOp.op = "clear" =>
        /\ request = DefaultRequest
        /\ searchInput = ""
        /\ ~hasActiveFilters(Params(searchParams))

C2_Witness ==
    /\ listOp.op = "clear"
    /\ listOp.from = Some("2")
    /\ request["page"] = Some("1")
    /\ request["is_us"] = Some("true")

\* C3: the country filter is three-valued end to end: 'US Only',
\* 'International' and 'All Countries' give the requests is_us=true,
\* is_us=false and no is_us parameter, the selector shows the choice made,
\* and a URL with no is_us parameter gives a request with is_us=true.
C3_CountryFilterThreeValued ==
    /\ listOp.op = "is_us" =>
          /\ listOp.arg = "true" => request["is_us"] = Some("true")
          /\ listOp.arg = "false" => request["is_us"] = Some("false")
          /\ listOp.arg = "all" => request["is_us"] = None
          /\ CountrySelectValue(Params(searchParams)) = listOp.arg
    /\ searchParams["is_us"] = None => request["is_us"] = Some("true")

C3_Witness ==
    /\ listOp.op = "is_us"
    /\ listOp.arg = "all"
    /\ request["is_us"] = None
    /\ CountrySelectValue(Params(searchParams)) = "all"

\* C9: the URL query encodes the list state: after any sequence of filter,
\* sort, search, page and clear actions, the parameters parsed from the
\* current URL are exactly those of the list request being issued.
C9_UrlEncodesRequest ==
    request = getLeads(Params(searchParams))

C9_Witness ==
    /\ listOp.op = "page"
    /\ searchInput = "farm"
    /\ searchParams["search"] = None
    /\ searchParams["state"] = Some("CA")
    /\ request["state"] = Some("CA")
    /\ request["page"] = Some("2")
    /\ request["search"] = None

\* The outcomes of a list request: loading, failure, no leads, leads.
ListOutcomes ==
    {Pending, Failed,
     Succeeded(ListResponse(DefaultRequest, 0)),
     Succeeded(ListResponse(DefaultRequest, 30))}

\* C10: the outcomes of the list request are rendered distinctly, and a
\* failed request is shown as an error: not with the 'Loading...' header and
\* not as a table without rows.
C10_FailureShownAsError ==
    /\ \A a, b \in ListOutcomes : a # b => ListRendering(a) # ListRendering(b)
    /\ leadsQuery.status = "error" =>
          /\ ListHeader(leadsQuery) # "Loading..."
          /\ ListBody(leadsQuery) # "no rows"

\* The search term of a URL: '' when it has none.
SearchTerm(sp) == GetOr(sp, "search", "")

\* C22: the search box stays synchronized with the URL: whenever the URL's
\* search term changes (search submit, clear filters, opening a URL, browser
\* back or forward), the search box then shows the new URL's search term.
C22_SearchBoxFollowsUrl ==
    [][ SearchTerm(searchParams') # SearchTerm(searchParams) =>
            searchInput' = SearchTerm(searchParams') ]_vars

\* The sortable fields the list endpoint documents.        ui/README.md:105
\* C23: only name, state and score headers sort (no click on another header
\* is a step of the page); a click on the column the list is sorted by keeps
\* sort_by and turns asc into desc and desc into asc; a click on another
\* sortable column makes it sort_by with sort_order = desc.
C23_SortClicks ==
    [][ listOp'.op = "sort" =>
          LET column == listOp'.arg
              before == Params(searchParams)
              after == Params(searchParams')
          IN  /\ column \in {"name", "state", "score"}
              /\ after.sort_by = Some(column)
              /\ IF before.sort_by = Some(column)
                 THEN /\ before.sort_order = Some("asc") => after.sort_order = Some("desc")
                      /\ before.sort_order = Some("desc") => after.sort_order = Some("asc")
                 ELSE after.sort_order = Some("desc") ]_vars

\* The State header clicked twice: sorted by state, ascending.
C23_Witness ==
    /\ listOp.op = "sort"
    /\ listOp.arg = "state"
    /\ searchParams["sort_by"] = Some("state")
    /\ searchParams["sort_order"] = Some("asc")

\* The keys of the object a handler gave to updateParams.
NamedKeys(op, sp) ==
    CASE op.op \in {"state", "source", "is_qualified", "is_us", "is_enriched", "search"}
            -> {op.op}
      [] op.op = "sort" -> DOMAIN SortParams(Params(sp), op.arg)
      [] op.op = "page" -> {"page"}
      [] OTHER -> UrlKeys

\* C27: after updateParams(newParams) every URL parameter that newParams does
\* not name has the value it had, except page, which is 1 when newParams has
\* no page; and a key given as undefined or '' (the "All" option of a select,
\* an empty search box) is absent from the URL.
C27_UpdateChangesNamedKeysOnly ==
    [][ listOp'.op \in FilterOps \cup {"page"} =>
          /\ \A k \in UrlKeys \ NamedKeys(listOp', searchParams) :
                searchParams'[k] = IF k = "page" THEN Some("1") ELSE searchParams[k]
          /\ (/\ listOp'.op \in {"state", "source", "is_qualified", "is_enriched", "search"}
              /\ listOp'.arg = "") => searchParams'[listOp'.op] = None ]_vars

\* "All States" chosen on page 2 of a list filtered by state and source.
C27_Witness ==
    /\ listOp = Op("state", Some("2"), "")
    /\ searchParams["state"] = None
    /\ searchParams["source"] # None
    /\ searchParams["page"] = Some("1")

\* C29: a Previous or Next click happens only on a loaded list with
\* total_pages > 1, Previous only when page > 1 and Next only when page <
\* total_pages; from a page in 1..total_pages the request it issues is for the
\* page one below or one above, which is again in 1..total_pages.
C29_PagingStaysInRange ==
    [][ listOp'.op = "page" =>
          /\ leadsQuery.data # None
          /\ LET shown == Val(leadsQuery.data)
                 down == request'["page"] = Some(ToString(shown.page - 1))
                 up == request'["page"] = Some(ToString(shown.page + 1))
             IN /\ shown.total_pages > 1
                /\ shown.page \in 1..shown.total_pages =>
                      /\ down \/ up
                      /\ down => shown.page - 1 \in 1..shown.total_pages
                      /\ up => shown.page + 1 \in 1..shown.total_pages ]_vars

\* Next clicked on page 2: page 3 is requested.
C29_Witness ==
    /\ listOp = Op("page", Some("2"), "")
    /\ request["page"] = Some("3")
    /\ leadsQuery.status = "pending"

SortAllowList == {"name", "score", "state", "city", "created_at"}

\* C12: the sort_by of every list request lies in the allow-list {name,
\* score, state, city, created_at}: an unrecognized sort_by typed into the URL
\* is not forwarded, it is rejected or replaced by the default sort.
C12_SortByInAllowList ==
    request["sort_by"] # None => Val(request["sort_by"]) \in SortAllowList

\* C13: every list request has page >= 1 or no page parameter: a URL page
\* below 1 or not a number is never forwarded as a page below 1.
C13_PageAtLeastOne ==
    request["page"] # None =>
        (~ParseInt(Val(request["page"])).nan /\ ParseInt(Val(request["page"])).n >= 1)

\* C14: every list request of the leads table carries page_size=50 whatever
\* the URL contains, so the requested page size never exceeds 100.
C14_PageSizeAlwaysFifty ==
    /\ request["page_size"] = Some("50")
    /\ ParseInt(Val(request["page_size"])).n <= 100

C14_Witness ==
    /\ searchParams["page_size"] = Some("500")
    /\ listOp.op \in FilterOps
    /\ request["page_size"] = Some("50")
    /\ request["state"] = Some("CA")

(***************************************************************************)
(* Claims about the query and statistics services.                         *)
(***************************************************************************)
\* The leads of the store that pass every filter the caller supplied.
Satisfies(lead, p) ==
    /\ TruthyStr(p.state) => lead.state = p.state
    /\ TruthyStr(p.source) => lead.source = p.source
    /\ p.min_score # None => (lead.score # None /\ Val(lead.score) >= Val(p.min_score).n)
    /\ p.max_score # None => (lead.score # None /\ Val(lead.score) <= Val(p.max_score).n)
    /\ p.is_qualified # None => lead.is_qualified = p.is_qualified
    /\ p.has_email = Some(TRUE) => (lead.email # None /\ lead.email # Some(""))
    /\ p.has_email = Some(FALSE) => (lead.email = None \/ lead.email = Some(""))
    /\ p.is_us = Some(TRUE) => (lead.country # None /\ Val(lead.country) \in UsCountries)
    /\ p.is_us = Some(FALSE) => (lead.country # None /\ Val(lead.country) \notin UsCountries)
    /\ p.is_enriched = Some(TRUE) => lead.last_enriched_at # None
    /\ p.is_enriched = Some(FALSE) => lead.last_enriched_at = None
    /\ TruthyStr(p.company_type) => lead.company_type = p.company_type
    /\ p.has_linkedin # None => lead.has_linkedin = p.has_linkedin
    /\ TruthyStr(p.search) => SearchMatches(lead, Val(p.search))

\* C15: the list response has total_pages = ceil(total / page_size), the
\* least number of pages of page_size rows that hold total rows, which is 0
\* when total = 0, for a page_size in 1..100; and when total > 0 a request
\* for a page beyond total_pages is answered with no leads and the same
\* total.
C15_TotalPagesIsCeiling ==
    served.op = "list" =>
        LET r == served.response.page
            matching == {id \in store : Satisfies(LeadRows[id], served.params)}
        IN /\ r.page_size \in 1..100
           /\ r.total >= 0
           /\ r.total_pages * r.page_size >= r.total
           /\ r.total_pages > 0 => (r.total_pages - 1) * r.page_size < r.total
           /\ r.total = 0 => r.total_pages = 0
           /\ (r.total > 0 /\ r.page > r.total_pages) =>
                 /\ served.response.leads = <<>>
                 /\ r.total = Cardinality(matching)

C15_Witness ==
    /\ served.op = "list"
    /\ served.response.page.total = 3
    /\ served.response.page.page_size = 2
    /\ served.response.page.total_pages = 2
    /\ served.response.page.page = 3
    /\ served.response.leads = <<>>

\* C16: for every combination of supplied filters (state, source, min_score
\* and max_score as inclusive bounds, is_qualified, has_email, is_us,
\* is_enriched, company_type, has_linkedin, search) every lead of the
\* returned page satisfies all of them, and total is the number of stored
\* leads that satisfy all of them.
C16_PageSatisfiesFilters ==
    served.op = "list" =>
        /\ \A i \in DOMAIN served.response.leads :
              /\ served.response.leads[i] \in store
              /\ Satisfies(LeadRows[served.response.leads[i]], served.params)
        /\ served.response.page.total =
              Cardinality({id \in store : Satisfies(LeadRows[id], served.params)})

C16_Witness ==
    /\ served.op = "list"
    /\ store = {2, 3, 4}
    /\ served.params.min_score = Some(Num(20))
    /\ served.params.is_us = Some(FALSE)
    /\ served.response.leads = <<3>>
    /\ served.response.page.total = 1

\* C28: in the query getLeads sends, is_qualified, has_email, is_us,
\* is_enriched, has_linkedin, min_score and max_score are present exactly
\* when the parameter is defined, false as "false" and 0 as "0"; state,
\* source, company_type, search, sort_by and sort_order exactly when they are
\* a non-empty string; and with no parameter at all there is no query string.
C28_FalseAndZeroAreSent ==
    served.op = "list" =>
        LET p == served.params
            q == served.request.query
        IN /\ served.request.method = "GET"
           /\ served.request.path = "/leads/"
           /\ \A k \in {"is_qualified", "has_email", "is_us", "is_enriched", "has_linkedin"} :
                 q[k] = IF p[k] = None THEN None
                        ELSE IF Val(p[k]) THEN Some("true") ELSE Some("false")
           /\ \A k \in {"min_score", "max_score"} :
                 /\ q[k] = None <=> p[k] = None
                 /\ p[k] # None => q[k] = Some(ToString(Val(p[k]).n))
           /\ \A k \in {"state", "source", "company_type", "search", "sort_by", "sort_order"} :
                 q[k] = IF p[k] = None \/ p[k] = Some("") THEN None ELSE p[k]
           /\ (\A k \in ReqKeys : p[k] = None) => (\A k \in ReqKeys : q[k] = None)

\* A call with min_score = 0 and is_us = false.
C28_Witness ==
    /\ served.op = "list"
    /\ served.params.min_score = Some(Num(0))
    /\ served.params.is_us = Some(FALSE)
    /\ served.request.query.min_score = Some("0")
    /\ served.request.query.is_us = Some("false")
    /\ served.request.query.state = None

\* The scores the documented signal points can add up to.    README.md:89-99
ScoreDomain == {5 * n : n \in 0..15}

\* C17: with the fixed buckets 0-20, 21-40, 41-60, 61-80, every lead with a
\* score falls into exactly one bucket, a lead without a score into none, and
\* the bucket counts add up to the number of leads with a score.
C17_BucketsPartitionScores ==
    served.op = "score-distribution" =>
        LET data == served.response
            scored == {id \in store : LeadRows[id].score # None}
            holds(i, v) == data[i].min_score <= v /\ v <= data[i].max_score
            sum == data[1].count + data[2].count + data[3].count + data[4].count
        IN /\ <<data[1].range, data[2].range, data[3].range, data[4].range>>
                 = <<"0-20", "21-40", "41-60", "61-80">>
           /\ \A v \in ScoreDomain : Cardinality({i \in DOMAIN data : holds(i, v)}) = 1
           /\ \A i \in DOMAIN data :
                 data[i].count = Cardinality({id \in scored : holds(i, Val(LeadRows[id].score))})
           /\ sum = Cardinality(scored)
           /\ \A i \in DOMAIN data : ChartBars(data)[i].height = data[i].count

C17_Witness ==
    /\ served.op = "score-distribution"
    /\ store = {1, 2, 3}
    /\ served.response[1].count = 1
    /\ served.response[2].count = 1
    /\ served.response[3].count = 0
    /\ served.response[4].count = 0

\* C18: enrichment_percentage is 0 when total = 0 and otherwise 100 *
\* enriched / total rounded to one decimal place, so the value the enrichment
\* progress bar receives, and the percentage it shows, is a defined number
\* between 0 and 100.
C18_EnrichmentPercentageDefined ==
    served.op = "overview" =>
        LET r == served.response
            value == r.enrichment_percentage
            shown == ProgressPercentage(value, ProgressMax)
        IN /\ r.total = Cardinality(store)
           /\ r.enriched = Cardinality({id \in store : LeadRows[id].last_enriched_at # None})
           /\ ~value.nan
           /\ r.total = 0 => value.n = 0
           /\ r.total > 0 =>
                 /\ 2 * (value.n * r.total - 1000 * r.enriched) <= r.total
                 /\ 2 * (1000 * r.enriched - value.n * r.total) <= r.total
           /\ value.n >= 0 /\ value.n <= 1000
           /\ ~shown.nan /\ shown.n >= 0 /\ shown.n <= 1000

C18_Witness ==
    /\ served.op = "overview"
    /\ served.response.total = 3
    /\ served.response.enriched = 2
    /\ served.response.enrichment_percentage = Num(667)
    /\ ProgressPercentage(served.response.enrichment_percentage, ProgressMax) = Num(667)


\* The calls that read leads, filter options and statistics.
ReadCalls == {"list", "lead", "filters", "overview", "score-distribution"}

\* C21: no dashboard, list, detail or draft call changes the lead store:
\* every request to the list, detail, filter-options and statistics
\* endpoints is a GET, and a step in which the dashboard calls a service or
\* renders its answer leaves the stored leads as they were.
C21_DashboardIsReadOnly ==
    [][ /\ (served' # NoCall /\ served'.op \in ReadCalls) => served'.request.method = "GET"
        /\ served' # served => store' = store
        /\ store' # store => (served = NoCall /\ served' = NoCall)
      ]_vars

C21_Witness ==
    /\ served.op = "filters"
    /\ served.request = fetchAPI("/leads/filters/", NoQuery)
    /\ store = {2, 3}
    /\ served.response.states = {"CA", "ON"}

\* C26: for a statistics response with 0 <= qualified <= total, total = 0
\* included, the percent of total on the Qualified card is a defined number
\* from 0 to 100.
C26_QualifiedShareDefined ==
    served.op = "overview" =>
        LET r == served.response
            shown == QualifiedShare(r)
        IN (0 <= r.qualified /\ r.qualified <= r.total) =>
              (~shown.nan /\ shown.n >= 0 /\ shown.n <= 1000)

\* The scores a legend entry's range text stands for.
InRange(range, v) ==
    CASE range = "0-20" -> 0 <= v /\ v <= 20
      [] range = "21-40" -> 21 <= v /\ v <= 40
      [] range = "41-60" -> 41 <= v /\ v <= 60
      [] range = "61-80" -> 61 <= v /\ v <= 80
      [] OTHER -> FALSE

\* The badge class that goes with a legend label.
TierOf(label) ==
    CASE label = "Low" -> "score-low"
      [] label = "Fair" -> "score-medium"
      [] label = "Good" -> "score-high"
      [] label = "Excellent" -> "score-excellent"
      [] OTHER -> "none"

\* C25: the badge of a lead whose score is an integer from 0 to 80 carries
\* the label of the legend entry whose range holds the score (0-20 Low, 21-40
\* Fair, 41-60 Good, 61-80 Excellent) and the class of that tier.
C25_BadgeMatchesLegend ==
    (served.op = "lead" /\ served.response.ok) =>
        LET lead == served.response.lead
            badge == ScoreBadge(lead)
        IN (lead.score # None /\ Val(lead.score) \in 0..80) =>
              \A i \in DOMAIN Legend :
                  InRange(Legend[i].range, Val(lead.score)) =>
                      /\ badge.label = Legend[i].label
                      /\ badge.class = TierOf(Legend[i].label)

(***************************************************************************)
(* Claims about the draft-email modal.                                     *)
(***************************************************************************)
draftFields == <<subject, body, enrichedInfo>>

UserActions == {"open", "regenerate", "try_again"}

\* C4: over every sequence of open, close, Regenerate, Try Again and response
\* arrivals, at most one generateDraftEmail request is in flight, also when
\* the modal is closed while a request is pending and then reopened.
C4_AtMostOneInFlight ==
    Cardinality(inflight) <= 1

\* C5: closing the modal while a generation is pending cancels it: while the
\* modal stays closed, subject, body and enrichedInfo stay empty/null, and a
\* response that arrives after the close does not write them.
C5_ClosedModalStaysEmpty ==
    ~isOpen => (subject = "" /\ body = "" /\ enrichedInfo = None)

\* C6: a failed generation (first attempt, Regenerate or Try Again) leaves
\* subject, body and enrichedInfo as they were: neither issuing an attempt
\* nor its failure writes them, they are written only when an attempt
\* succeeds (or by the user's own edit, or the reset on close); and the
\* failed state shows Try Again, which issues a new attempt.
C6_FailureKeepsDraft ==
    [][ /\ modalOp' \notin {"generated", "edit", "close"} => UNCHANGED draftFields
        /\ modalOp' = "failed" => UNCHANGED draftFields
        /\ (isOpen /\ mutation.status = "error") => TryAgainShown(isOpen, mutation)
        /\ modalOp' = "try_again" =>
              /\ mutation.status = "error"
              /\ mutation'.status = "pending"
              /\ inflight' = inflight \cup {issued + 1}
      ]_vars

C6_Witness ==
    /\ modalOp = "failed"
    /\ isOpen
    /\ mutation.status = "error"
    /\ subject = DraftSubject(1)
    /\ body = "edited"
    /\ enrichedInfo = Some(DraftInfo(1))

\* C7: generation is invoked exactly once per user-initiated action: each
\* opening of the modal, each Regenerate and each Try Again issues exactly
\* one generateDraftEmail call, and no other step (close, edit, response
\* arrival) issues any.
C7_OneCallPerUserAction ==
    [][ /\ modalOp' \in UserActions =>
              (issued' = issued + 1 /\ inflight' = inflight \cup {issued'})
        /\ modalOp' \notin UserActions =>
              (issued' = issued /\ inflight' \subseteq inflight)
      ]_vars

C7_Witness ==
    /\ modalOp = "open"
    /\ issued = 2
    /\ inflight = {1, 2}
    /\ current = 2

C20_SuccessReplacesFields ==
    [][ modalOp' = "generated" =>
            /\ draftResponse'.answer.kind = "ok"
            /\ subject' = DraftData(draftResponse'.request).subject
            /\ body' = DraftData(draftResponse'.request).body
            /\ enrichedInfo' = DraftData(draftResponse'.request).enriched_info
      ]_vars

C20_Witness ==
    /\ modalOp = "generated"
    /\ draftResponse.request = 2
    /\ isOpen
    /\ subject = DraftSubject(2)
    /\ body = DraftBody(2)
    /\ enrichedInfo = Some(DraftInfo(2))

\* C24: whenever the modal is open and shows the draft form (no request
\* pending, no error), the research it holds is the one returned for the
\* request the modal last issued; an answer to an earlier request, one
\* superseded by close and reopen, never replaces it.
C24_FormHoldsLatestDraft ==
    ModalView(isOpen, mutation) = "form" =>
        /\ current = issued
        /\ enrichedInfo = Some(DraftInfo(current))

(***************************************************************************)
(* Claims about the lead detail view.                                      *)
(***************************************************************************)
\* The parsed value is a non-empty list of strings.
IsStringList(v) ==
    /\ v.t = "array"
    /\ Len(v.items) > 0
    /\ \A i \in 1..Len(v.items) : v.items[i].t = "string"

\* What tech_stack decodes to: JSON.parse's value, or nothing.
Decoded(lead) ==
    IF lead.tech_stack = None THEN SyntaxError ELSE JsonParse(Val(lead.tech_stack))

\* C8: for every tech_stack value (null, empty, not JSON, JSON that is not a
\* list of strings) the detail view renders without raising, and shows
\* detected-tech entries only when the value decodes to a non-empty list of
\* strings; any other value is treated as absent.
C8_TechStackNeverRaises ==
    leadQuery.status = "success" =>
        /\ detailView # Crashed
        /\ detailView.view = "lead"
        /\ detailView.techShown <=> IsStringList(Decoded(Val(leadQuery.data)))

C8_Witness ==
    /\ leadQuery.status = "success"
    /\ Val(leadQuery.data).tech_stack = Some("[\"wordpress\",\"shopify\"]")
    /\ detailView.view = "lead"
    /\ detailView.techShown
    /\ detailView.tech = <<"wordpress", "shopify">>

\* C11: when the lead request fails because the store or the API is
\* unavailable (a 5xx answer or a network error), the detail view is an error
\* state that offers a retry of the request and differs from the view shown
\* when the lead does not exist.
C11_UnavailableShownWithRetry ==
    (leadQuery.status = "error" /\ leadQuery.error \in UnavailableErrors) =>
        /\ detailView # RenderDetail(FailedWith(NotFoundError))
        /\ "Retry" \in ViewControls(detailView)

\* C30: a lead shown by the detail view is labelled Qualified or
\* Disqualified, with the label its row has in the list: Qualified exactly
\* when is_qualified is true, Disqualified when it is false or null; and a
\* disqualification reason is shown only for a lead that is not qualified
\* and has a non-empty reason.
C30_SameClassificationInBothViews ==
    detailView.view = "lead" =>
        LET lead == Val(leadQuery.data)
        IN /\ detailView.status \in {"Qualified", "Disqualified"}
           /\ detailView.status = StatusCell(lead)
           /\ detailView.status = "Qualified" <=> lead.is_qualified = Some(TRUE)
           /\ lead.is_qualified \in {None, Some(FALSE)} => detailView.status = "Disqualified"
           /\ detailView.reason # None =>
                 /\ lead.is_qualified # Some(TRUE)
                 /\ lead.disqualification_reason \notin {None, Some("")}
                 /\ detailView.reason = lead.disqualification_reason

\* A lead without a decision and with a reason.
C30_Witness ==
    /\ detailView.view = "lead"
    /\ Val(leadQuery.data).is_qualified = None
    /\ detailView.status = "Disqualified"
    /\ detailView.reason = Some("No website")

====
